---- MODULE Spec2Model ----
(***************************************************************************)
(* A model of the two simulation drivers of the repository:                *)
(*   src/iot.cc       IoT access network: packet delivery ratio            *)
(*   src/security.cc  access-control demo: allow-list packet inspection    *)
(*                                                                         *)
(* Both are single-threaded discrete-event programs.  main() builds the    *)
(* topology and the traffic schedule, Simulator::Run() dispatches events   *)
(* in nondecreasing virtual time (ties in insertion order) until the event *)
(* scheduled by Simulator::Stop(), and main() then prints a summary.       *)
(*                                                                         *)
(* Virtual time is counted in half seconds (every time the two programs    *)
(* name is a multiple of 0.5 s).  State `now = t` stands for the events    *)
(* with timestamp exactly t followed by the open interval (t, t+1).        *)
(***************************************************************************)
EXTENDS Integers, Sequences, FiniteSets

\* ------------------------------------------------------------------ bounds
MaxNIot == 3            \* endpoints explored by the general IoT runs
MaxSimTicks == 9        \* largest --simulationTime explored, in half seconds
MaxEnergyLines == 2     \* lines EnergyTrace may append in one run
MaxOtherFrames == 3     \* non-datagram frames one sender's PHY emits in a run
MaxSecSimTicks == 3     \* largest --simTime explored besides the default

\* --------------------------------------------------------- program constants
DefaultNIot == 20       \* uint32_t nIot = 20
packetRate == 1         \* uint32_t packetRate = 1
ClientMaxPackets == 5   \* echoClient MaxPackets
RogueMaxPackets == 3    \* rogueClient MaxPackets

\* ns3::Seconds(s) for whole seconds, in half-second ticks.
Seconds(s) == 2 * s

DefaultSimulationTime == Seconds(10)   \* double simulationTime = 10.0
DefaultSimTimeSec == Seconds(8)        \* double simTimeSec = 8.0
FlowStart == Seconds(1)                \* tempApp.Start(Seconds(1.0))
\* OnOff at 512*packetRate B/s with 512 B packets: one packet per 1/packetRate s.
SendInterval == Seconds(1) \div packetRate

VARIABLES
    program,            \* which binary runs: "iot" or "security"
    \* ---- src/iot.cc
    nIot,               \* --nIot
    simulationTime,     \* --simulationTime, in half seconds
    phase,              \* position of main(): "Start", "Configured", "Running",
                        \* "Halted", "Reported" ("ConfigurationError" is never set)
    nodes,              \* nodes created so far
    stopAt,             \* timestamp of the event scheduled by Simulator::Stop, -1 if none
    now,                \* Simulator::Now()
    started,            \* the endpoints' StartApplication events have run
    nextTx,             \* timestamp of the endpoints' next send event, -1 if none
    sendIdx,            \* endpoints whose send event at `now` has already run
    emitted,            \* packets the flows have emitted
    g_packetsReceived,  \* static uint64_t g_packetsReceived
    energyLines,        \* lines appended to energy-log.txt
    totalTxPackets,     \* uint64_t totalTxPackets, see U64
    pdr,                \* double pdr, in hundredths of a percent
    \* ---- src/security.cc
    sec,                \* the run of security.cc, a record (see SecInit)
    twin                \* a second run of security.cc given another --simTime

iotVars == <<nIot, simulationTime, phase, nodes, stopAt, now, started, nextTx,
             sendIdx, emitted, g_packetsReceived, energyLines, totalTxPackets, pdr>>
vars == <<program, iotVars, sec, twin>>

(***************************************************************************)
(* uint64_t values.  TLC's integers are 32 bits wide, so a value is kept   *)
(* as [wrap, off] standing for wrap * 2^64 + off, where wrap = 1 only with *)
(* off < 0 (the value 2^64 - |off|).                                       *)
(***************************************************************************)
U64(n) == [wrap |-> 0, off |-> n]
U64Wrapped(n) == [wrap |-> 1, off |-> n]
U64Positive(x) == x.wrap = 1 \/ x.off > 0

\* Variant of AnalyticSent that subtracts 2.0 s (the time of the first
\* packet) instead of the 1.0 s flow start; C1 must tell the two apart.
AnalyticSentLate(n, t) ==
    LET x == (n * packetRate) * (t - Seconds(2))
    IN  IF x >= 0 THEN x \div 2 ELSE -((-x) \div 2)
\* The double nIot * packetRate * (simulationTime - 1.0), truncated toward
\* zero; t is in half seconds, so the product is n * (t - 2) / 2.
AnalyticSent(n, t) ==
    LET x == (n * packetRate) * (t - Seconds(1))
    IN  IF x >= 0 THEN x \div 2 ELSE -((-x) \div 2)

\* Conversion of that double to uint64_t.  A truncated value in 0..2^64-1 is
\* the result.  A negative truncated value is undefined behaviour: the
\* builds in use either wrap it modulo 2^64 (x86-64: cvttsd2si) or saturate
\* it to 0 (AArch64: fcvtzu).
ToUint64(d) == IF d >= 0 THEN {U64(d)} ELSE {U64Wrapped(d), U64(0)}

\* ((double) received / total) * 100.0 in hundredths of a percent, rounded
\* down; guarded by total > 0 as in the source.  Against a wrapped total
\* (at least 2^64 - 2^31) every received count of the model gives 0.00.
Pdr(received, total) ==
    IF U64Positive(total)
    THEN (IF total.wrap = 1 THEN 0 ELSE (received * 10000) \div total.off)
    ELSE 0

(***************************************************************************)
(* The event loop.  Simulator::Stop(d) inserts an ordinary event at time   *)
(* d; it is inserted by main() before Simulator::Run(), hence before every *)
(* event the applications schedule while the loop runs, so at timestamp    *)
(* d it is dispatched first and nothing else with timestamp >= d runs.     *)
(***************************************************************************)
\* Variant in which events with the stop event's own timestamp still run;
\* C6 and C7 must tell it from Dispatchable.
DispatchableInclusive(t, stop) == t <= stop
Dispatchable(t, stop) == t < stop

\* Events of timestamp `now` that the loop has not dispatched yet.
IotPending ==
    /\ Dispatchable(now, stopAt)
    /\ \/ (now = FlowStart /\ ~started /\ nIot > 0)
       \/ (started /\ now = nextTx)

\* ------------------------------------------------------------ src/iot.cc
\* main() lines 35-157: parse the command line, create the nodes, install
\* sink, flows and traces, and schedule the stop event.  Nothing checks the
\* parsed values.
IotSetup ==
    /\ program = "iot" /\ phase = "Start"
    /\ nodes' = 1 + nIot
    /\ stopAt' = simulationTime
    /\ phase' = "Configured"
    /\ UNCHANGED <<program, nIot, simulationTime, now, started, nextTx, sendIdx,
                   emitted, g_packetsReceived, energyLines, totalTxPackets, pdr,
                   sec, twin>>

\* Simulator::Run() is entered.
IotRun ==
    /\ program = "iot" /\ phase = "Configured"
    /\ phase' = "Running"
    /\ UNCHANGED <<program, nIot, simulationTime, nodes, stopAt, now, started,
                   nextTx, sendIdx, emitted, g_packetsReceived, energyLines,
                   totalTxPackets, pdr, sec, twin>>

\* The StartApplication events of the nIot OnOff applications, all at
\* Seconds(1.0): each schedules its first packet one send interval later.
StartFlows ==
    /\ program = "iot" /\ phase = "Running"
    /\ now = FlowStart /\ ~started /\ nIot > 0
    /\ Dispatchable(now, stopAt)
    /\ started' = TRUE
    /\ nextTx' = now + SendInterval
    /\ UNCHANGED <<program, nIot, simulationTime, phase, nodes, stopAt, now,
                   sendIdx, emitted, g_packetsReceived, energyLines,
                   totalTxPackets, pdr, sec, twin>>

\* The send event of endpoint sendIdx at timestamp nextTx; the endpoints'
\* events carry the same timestamp and run in installation order.
EndpointSend ==
    /\ program = "iot" /\ phase = "Running"
    /\ started /\ now = nextTx /\ sendIdx < nIot
    /\ Dispatchable(now, stopAt)
    /\ emitted' = emitted + 1
    /\ IF sendIdx + 1 = nIot
       THEN sendIdx' = 0 /\ nextTx' = nextTx + SendInterval
       ELSE sendIdx' = sendIdx + 1 /\ nextTx' = nextTx
    /\ UNCHANGED <<program, nIot, simulationTime, phase, nodes, stopAt, now,
                   started, g_packetsReceived, energyLines, totalTxPackets, pdr,
                   sec, twin>>

\* RxCallback: the sink's Rx trace fires for an emitted packet that has not
\* arrived yet.  A packet never received is a lost one.
RxCallback ==
    /\ program = "iot" /\ phase = "Running"
    /\ ~IotPending /\ Dispatchable(now, stopAt)
    /\ g_packetsReceived < emitted
    /\ g_packetsReceived' = g_packetsReceived + 1
    /\ UNCHANGED <<program, nIot, simulationTime, phase, nodes, stopAt, now,
                   started, nextTx, sendIdx, emitted, energyLines,
                   totalTxPackets, pdr, sec, twin>>

\* EnergyTrace: an endpoint's RemainingEnergy trace fires; one line is
\* appended to energy-log.txt.
EnergyTrace ==
    /\ program = "iot" /\ phase = "Running"
    /\ ~IotPending /\ Dispatchable(now, stopAt)
    /\ nIot > 0 /\ energyLines < MaxEnergyLines
    /\ energyLines' = energyLines + 1
    /\ UNCHANGED <<program, nIot, simulationTime, phase, nodes, stopAt, now,
                   started, nextTx, sendIdx, emitted, g_packetsReceived,
                   totalTxPackets, pdr, sec, twin>>

\* The loop moves on to the next timestamp.
IotAdvance ==
    /\ program = "iot" /\ phase = "Running"
    /\ ~IotPending /\ Dispatchable(now, stopAt)
    /\ now' = now + 1
    /\ UNCHANGED <<program, nIot, simulationTime, phase, nodes, stopAt, started,
                   nextTx, sendIdx, emitted, g_packetsReceived, energyLines,
                   totalTxPackets, pdr, sec, twin>>

\* The stop event is dispatched: Simulator::Run() returns.
IotHalt ==
    /\ program = "iot" /\ phase = "Running"
    /\ ~Dispatchable(now, stopAt)
    /\ phase' = "Halted"
    /\ UNCHANGED <<program, nIot, simulationTime, nodes, stopAt, now, started,
                   nextTx, sendIdx, emitted, g_packetsReceived, energyLines,
                   totalTxPackets, pdr, sec, twin>>

\* main() lines 160-182: the summary.
IotReport ==
    /\ program = "iot" /\ phase = "Halted"
    /\ \E total \in ToUint64(AnalyticSent(nIot, simulationTime)) :
          /\ totalTxPackets' = total
          /\ pdr' = Pdr(g_packetsReceived, total)
    /\ phase' = "Reported"
    /\ UNCHANGED <<program, nIot, simulationTime, nodes, stopAt, now, started,
                   nextTx, sendIdx, emitted, g_packetsReceived, energyLines,
                   sec, twin>>

IotNext ==
    \/ IotSetup \/ IotRun \/ StartFlows \/ EndpointSend \/ RxCallback
    \/ EnergyTrace \/ IotAdvance \/ IotHalt \/ IotReport

\* ------------------------------------------------------- src/security.cc
Senders == {"client", "rogue"}

\* ipv4.Assign(allDevices) on 10.1.1.0/24: server, client, rogue in this order.
serverIp == "10.1.1.1"
clientIp == "10.1.1.2"
rogueIp == "10.1.1.3"
IpOf(node) == IF node = "client" THEN clientIp ELSE rogueIp

ServerStart == Seconds(1)               \* serverApps.Start(Seconds(1.0))
ClientStart == Seconds(2)               \* clientApps.Start(Seconds(2.0))
RogueStart == Seconds(2) + 1            \* rogueApps.Start(Seconds(2.5))
EchoInterval == Seconds(1)              \* "Interval", Seconds(1.0)
AppStart(node) == IF node = "client" THEN ClientStart ELSE RogueStart
MaxPackets(node) == IF node = "client" THEN ClientMaxPackets ELSE RogueMaxPackets

\* Variant that stops at the parsed --simTime; C9 must tell it from
\* SecStopTime.
SecStopTimeFromArg(simTimeSec) == simTimeSec
\* Simulator::Stop(Seconds(3.0)): the stop time main() passes, with the
\* parsed simTimeSec in scope and unused.
SecStopTime(simTimeSec) == Seconds(3)

Range(q) == {q[i] : i \in 1..Len(q)}

\* std::find(g_acl.begin(), g_acl.end(), src) != g_acl.end()
AclFinds(acl, src) == src \in Range(acl)

\* The state of security.cc when main() is entered.
SecInit(simTime) ==
    [ simTimeSec |-> simTime,          \* --simTime, in half seconds
      phase |-> "Start",
      nodes |-> 0,
      stopAt |-> -1,
      now |-> 0,
      g_acl |-> <<>>,                  \* std::vector<Ipv4Address> g_acl
      g_numAuthorized |-> 0,
      g_numUnauthorized |-> 0,
      authorizedFrom |-> {},           \* sources logged [AUTHORIZED]
      unauthorizedFrom |-> {},         \* sources logged [UNAUTHORIZED]
      serverRunning |-> FALSE,         \* the echo server has been started
      sent |-> [n \in Senders |-> 0],      \* datagrams each echo client sent
      nextSend |-> [n \in Senders |-> -1], \* its next send event, -1 if none
      other |-> [n \in Senders |-> 0],     \* other frames its PHY emitted
      phyData |-> [n \in Senders |-> 0],   \* its datagrams received by the hub PHY
      phyOther |-> [n \in Senders |-> 0],  \* its other frames received there
      serverRx |-> [n \in Senders |-> 0],  \* its datagrams read by the echo server
      echoed |-> [n \in Senders |-> 0],    \* replies the echo server sent to it
      printedAuthorized |-> -1,        \* "Authorized packets: "
      printedUnauthorized |-> -1 ]     \* "Unauthorized packets: "

\* Events of timestamp s.now that the loop has not dispatched yet.
SecPending(s) ==
    /\ Dispatchable(s.now, s.stopAt)
    /\ \/ (s.now = ServerStart /\ ~s.serverRunning)
       \/ \E n \in Senders : s.nextSend[n] = s.now

\* Variant of MyPacketRxCallback without the else: the unauthorized counter
\* is raised on every firing; C8 must tell it from the callback.
MyPacketRxCallbackNoElse(s, src) ==
    LET u == [s EXCEPT !.g_numUnauthorized = @ + 1,
                       !.unauthorizedFrom = @ \cup {src}]
    IN  IF AclFinds(s.g_acl, src)
        THEN [u EXCEPT !.g_numAuthorized = @ + 1,
                       !.authorizedFrom = @ \cup {src}]
        ELSE u
\* MyPacketRxCallback(packet, from) with from's IPv4 address src.
MyPacketRxCallback(s, src) ==
    IF AclFinds(s.g_acl, src)
    THEN [s EXCEPT !.g_numAuthorized = @ + 1,
                   !.authorizedFrom = @ \cup {src}]
    ELSE [s EXCEPT !.g_numUnauthorized = @ + 1,
                   !.unauthorizedFrom = @ \cup {src}]

\* Variant in which the Allow-List gates delivery; C10 must tell it from
\* ServerAccepts.
ServerAcceptsListed(s, src) == s.serverRunning /\ AclFinds(s.g_acl, src)
\* Whether a datagram from src whose reception ended at the hub goes up to
\* the echo server's socket: the trace callback returns nothing and the
\* device hands every datagram on; the server reads it once started.
ServerAccepts(s, src) == s.serverRunning

\* The events of a run, e a record naming the handler and its inputs.
SecEnabled(s, e) ==
    CASE e.type = "setup" -> s.phase = "Start"
      [] e.type = "run" -> s.phase = "Configured"
      [] e.type = "serverStart" ->
            /\ s.phase = "Running" /\ Dispatchable(s.now, s.stopAt)
            /\ s.now = ServerStart /\ ~s.serverRunning
      [] e.type = "send" ->
            /\ s.phase = "Running" /\ Dispatchable(s.now, s.stopAt)
            /\ s.nextSend[e.node] = s.now
            /\ ~(s.now = ServerStart /\ ~s.serverRunning)
      [] e.type = "otherFrame" ->
            /\ s.phase = "Running" /\ Dispatchable(s.now, s.stopAt)
            /\ ~SecPending(s)
            /\ s.sent[e.node] > 0 /\ s.other[e.node] < MaxOtherFrames
      [] e.type = "phyRxEnd" ->
            /\ s.phase = "Running" /\ Dispatchable(s.now, s.stopAt)
            /\ ~SecPending(s)
            /\ IF e.kind = "datagram"
               THEN s.phyData[e.node] < s.sent[e.node]
               ELSE s.phyOther[e.node] < s.other[e.node]
      [] e.type = "advance" ->
            /\ s.phase = "Running" /\ Dispatchable(s.now, s.stopAt)
            /\ ~SecPending(s)
      [] e.type = "halt" -> s.phase = "Running" /\ ~Dispatchable(s.now, s.stopAt)
      [] e.type = "report" -> s.phase = "Halted"
      [] OTHER -> FALSE

SecEffect(s, e) ==
    CASE e.type = "setup" ->
            \* main() lines 58-176; nothing reads simTimeSec after the parse
            [s EXCEPT !.nodes = 3,
                      !.g_acl = Append(@, clientIp),
                      !.nextSend = [n \in Senders |-> AppStart(n)],
                      !.stopAt = SecStopTime(s.simTimeSec),
                      !.phase = "Configured"]
      [] e.type = "run" -> [s EXCEPT !.phase = "Running"]
      [] e.type = "serverStart" -> [s EXCEPT !.serverRunning = TRUE]
      [] e.type = "send" ->
            \* UdpEchoClient::Send: one datagram, then the next send event
            \* while fewer than MaxPackets have been sent
            [s EXCEPT !.sent[e.node] = @ + 1,
                      !.nextSend[e.node] =
                          IF s.sent[e.node] + 1 < MaxPackets(e.node)
                          THEN s.now + EchoInterval ELSE -1]
      [] e.type = "otherFrame" -> [s EXCEPT !.other[e.node] = @ + 1]
      [] e.type = "phyRxEnd" ->
            LET src == IpOf(e.node)
                t == MyPacketRxCallback(s, src)
            IN  IF e.kind = "datagram"
                THEN IF ServerAccepts(t, src)
                     THEN [t EXCEPT !.phyData[e.node] = @ + 1,
                                    !.serverRx[e.node] = @ + 1,
                                    !.echoed[e.node] = @ + 1]
                     ELSE [t EXCEPT !.phyData[e.node] = @ + 1]
                ELSE [t EXCEPT !.phyOther[e.node] = @ + 1]
      [] e.type = "advance" -> [s EXCEPT !.now = @ + 1]
      [] e.type = "halt" -> [s EXCEPT !.phase = "Halted"]
      [] e.type = "report" ->
            [s EXCEPT !.printedAuthorized = s.g_numAuthorized,
                      !.printedUnauthorized = s.g_numUnauthorized,
                      !.phase = "Reported"]
      [] OTHER -> s

\* An event of the run of security.cc.  The twin run, started with another
\* --simTime, is offered the same event and takes it when its own state
\* allows it.
Offered(e) == program = "security" /\ SecEnabled(sec, e)
TwinEffect(e) == IF SecEnabled(twin, e) THEN SecEffect(twin, e) ELSE twin

\* main() up to Simulator::Stop: topology, addresses, ACL, applications,
\* trace hook.  Nothing checks simTimeSec.
SecSetup ==
    LET e == [type |-> "setup"]
    IN  /\ Offered(e)
        /\ sec' = SecEffect(sec, e) /\ twin' = TwinEffect(e)
        /\ UNCHANGED <<program, iotVars>>

\* Simulator::Run() is entered.
SecRun ==
    LET e == [type |-> "run"]
    IN  /\ Offered(e)
        /\ sec' = SecEffect(sec, e) /\ twin' = TwinEffect(e)
        /\ UNCHANGED <<program, iotVars>>

\* The echo server's StartApplication event.
EchoServerStart ==
    LET e == [type |-> "serverStart"]
    IN  /\ Offered(e)
        /\ sec' = SecEffect(sec, e) /\ twin' = TwinEffect(e)
        /\ UNCHANGED <<program, iotVars>>

\* An echo client's send event (the first one is its StartApplication).
EchoClientSend ==
    \E n \in Senders :
        LET e == [type |-> "send", node |-> n]
        IN  /\ Offered(e)
            /\ sec' = SecEffect(sec, e) /\ twin' = TwinEffect(e)
            /\ UNCHANGED <<program, iotVars>>

\* A sender's link layer puts a frame on the air that carries no new
\* datagram for the server (handshake, address resolution, retransmission).
\* The source installs the THz MAC/PHY on client and rogue and hooks the
\* inspector below the MAC; how many such frames a sender emits is the
\* link layer's choice, bounded here by MaxOtherFrames.
OtherFrame ==
    \E n \in Senders :
        LET e == [type |-> "otherFrame", node |-> n]
        IN  /\ Offered(e)
            /\ sec' = SecEffect(sec, e) /\ twin' = TwinEffect(e)
            /\ UNCHANGED <<program, iotVars>>

\* The server device's PhyRxEnd trace fires for a frame on the air, of
\* either kind, with the sender's address; a frame never received is a lost
\* one.  A datagram then goes up to the echo server, which echoes it.
PhyRxEnd ==
    \E n \in Senders, k \in {"datagram", "other"} :
        LET e == [type |-> "phyRxEnd", node |-> n, kind |-> k]
        IN  /\ Offered(e)
            /\ sec' = SecEffect(sec, e) /\ twin' = TwinEffect(e)
            /\ UNCHANGED <<program, iotVars>>

\* The loop moves on to the next timestamp.
SecAdvance ==
    LET e == [type |-> "advance"]
    IN  /\ Offered(e)
        /\ sec' = SecEffect(sec, e) /\ twin' = TwinEffect(e)
        /\ UNCHANGED <<program, iotVars>>

\* The stop event is dispatched: Simulator::Run() returns.
SecHalt ==
    LET e == [type |-> "halt"]
    IN  /\ Offered(e)
        /\ sec' = SecEffect(sec, e) /\ twin' = TwinEffect(e)
        /\ UNCHANGED <<program, iotVars>>

\* main() lines 179-180: the two counters are printed.
SecReport ==
    LET e == [type |-> "report"]
    IN  /\ Offered(e)
        /\ sec' = SecEffect(sec, e) /\ twin' = TwinEffect(e)
        /\ UNCHANGED <<program, iotVars>>

SecNext ==
    \/ SecSetup \/ SecRun \/ EchoServerStart \/ EchoClientSend \/ OtherFrame
    \/ PhyRxEnd \/ SecAdvance \/ SecHalt \/ SecReport

\* --------------------------------------------------------- specifications
\* main() of iot.cc entered with the given command line (durations from 0:
\* what Simulator::Stop does with a negative delay is the framework's).
IotEntry(n, t) ==
    /\ nIot = n /\ simulationTime = t
    /\ phase = "Start" /\ nodes = 0 /\ stopAt = -1 /\ now = 0
    /\ started = FALSE /\ nextTx = -1 /\ sendIdx = 0 /\ emitted = 0
    /\ g_packetsReceived = 0 /\ energyLines = 0
    /\ totalTxPackets = U64(0) /\ pdr = 0

SimTimeChoices == (0..MaxSecSimTicks) \cup {DefaultSimTimeSec}

Init ==
    \/ /\ program = "iot"
       /\ \E n \in 0..MaxNIot, t \in 0..MaxSimTicks : IotEntry(n, t)
       /\ sec = SecInit(DefaultSimTimeSec) /\ twin = SecInit(DefaultSimTimeSec)
    \/ /\ program = "security"
       /\ IotEntry(DefaultNIot, DefaultSimulationTime)
       /\ \E a \in SimTimeChoices, b \in SimTimeChoices :
             sec = SecInit(a) /\ twin = SecInit(b)

Next == IotNext \/ SecNext

Spec == Init /\ [][Next]_vars

\* Scenario A: iot.cc run with its defaults (20 endpoints, 10 s).
InitA ==
    /\ program = "iot"
    /\ IotEntry(DefaultNIot, DefaultSimulationTime)
    /\ sec = SecInit(DefaultSimTimeSec) /\ twin = SecInit(DefaultSimTimeSec)

SpecA == InitA /\ [][IotNext]_vars

\* ------------------------------------------------------------------ claims
IotDone == program = "iot" /\ phase = "Reported"

\* C1: whenever iot.cc has reported, the delivery ratio lies in [0, 100] %
\* if totalSent > 0 and is 0 if totalSent = 0, for every endpoint count and
\* duration (durations at or below the 1 s flow start included) and every
\* number of packets received.
C1_DeliveryRatioInRange ==
    IotDone =>
        IF U64Positive(totalTxPackets)
        THEN 0 <= pdr /\ pdr <= 10000
        ELSE pdr = 0

\* C1 witness: a report with packets received and a positive ratio.
C1_Witness ==
    /\ IotDone /\ U64Positive(totalTxPackets)
    /\ g_packetsReceived > 0 /\ pdr > 0

\* C2 (as claimed): the two counters of the inspector add up to the number
\* of datagrams the hub's echo server received.
C2_CountsEqualServerReceived ==
    program = "security" =>
        sec.g_numAuthorized + sec.g_numUnauthorized
            = sec.serverRx["client"] + sec.serverRx["rogue"]

\* C3 (as claimed): a non-positive configuration value ends the run before
\* any node is created, any event scheduled or the loop entered.
C3_InvalidConfigRejected ==
    /\ (program = "iot" /\ (nIot <= 0 \/ simulationTime <= 0)) =>
           /\ phase \in {"Start", "ConfigurationError"}
           /\ nodes = 0 /\ stopAt = -1
    /\ (program = "security" /\ sec.simTimeSec <= 0) =>
           /\ sec.phase \in {"Start", "ConfigurationError"}
           /\ sec.nodes = 0 /\ sec.stopAt = -1

\* C4 (as claimed): with simulationTime <= 1 s the flows are no-ops: no
\* packet is emitted or received, and the report says totalSent = 0.
C4_EmptyWindowReportsZero ==
    (IotDone /\ simulationTime <= FlowStart) =>
        /\ emitted = 0 /\ g_packetsReceived = 0
        /\ totalTxPackets = U64(0)

\* C5 (as claimed): a reception is counted Authorized exactly when its
\* source is on the Allow-List, so Unauthorized decisions name the rogue
\* only, and the run ends with at most 5 Authorized and 3 Unauthorized.
C5_ScenarioB ==
    program = "security" =>
        /\ sec.authorizedFrom \subseteq Range(sec.g_acl)
        /\ sec.unauthorizedFrom \cap Range(sec.g_acl) = {}
        /\ sec.unauthorizedFrom \subseteq {rogueIp}
        /\ sec.phase \in {"Halted", "Reported"} =>
              /\ sec.g_numAuthorized <= ClientMaxPackets
              /\ sec.g_numUnauthorized <= RogueMaxPackets

\* The analytic count of Scenario A: 20 x 1 x (10 - 1).
ScenarioASent == DefaultNIot * packetRate * ((DefaultSimulationTime - FlowStart) \div 2)
\* What the flows of Scenario A emit before the stop event: the sends at
\* 2 s, 3 s, ..., 9 s of each endpoint.
ScenarioAEmitted == DefaultNIot * packetRate * ((DefaultSimulationTime - FlowStart) \div 2 - 1)

\* C6 (as claimed): in Scenario A totalSent is 180, which is the number of
\* packets the flows emit in their windows, and received <= 180 throughout.
C6_SentEqualsEmitted ==
    /\ g_packetsReceived <= ScenarioASent
    /\ phase = "Reported" =>
          /\ totalTxPackets = U64(ScenarioASent)
          /\ emitted = ScenarioASent

\* C6 (amended): in Scenario A totalSent is 180; the flows emit 8 packets
\* per endpoint, 160 in all, before the stop event, so totalSent bounds the
\* emitted packets from above without equalling them, and in every state
\* received <= emitted <= 160 <= 180.
C6_SentBoundsEmitted ==
    /\ g_packetsReceived <= emitted
    /\ emitted <= ScenarioAEmitted
    /\ ScenarioAEmitted <= ScenarioASent
    /\ phase \in {"Halted", "Reported"} => emitted = ScenarioAEmitted
    /\ phase = "Reported" => totalTxPackets = U64(ScenarioASent)

\* C6 witness: Scenario A reported with every emitted packet received.
C6_Witness ==
    /\ phase = "Reported" /\ nIot = DefaultNIot
    /\ simulationTime = DefaultSimulationTime
    /\ g_packetsReceived = ScenarioAEmitted

LifecycleOrder ==
    {<<"Start", "Configured">>, <<"Configured", "Running">>,
     <<"Running", "Halted">>, <<"Halted", "Reported">>}

SecCounters(s) ==
    <<s.g_numAuthorized, s.g_numUnauthorized, s.authorizedFrom, s.unauthorizedFrom,
      s.sent, s.other, s.phyData, s.phyOther, s.serverRx, s.echoed, s.now>>

\* C7: both programs move Start/Configured -> Running -> Halted -> Reported
\* and never back; the loop halts when virtual time reaches the stop time;
\* no event with a timestamp at or beyond it runs; nothing the traces count
\* changes once halted; the summary is written only in the step after the
\* halt, from the values frozen there.
C7_Lifecycle ==
    [][ /\ phase' # phase => <<phase, phase'>> \in LifecycleOrder
        /\ (phase = "Running" /\ phase' = "Halted") => now = stopAt
        /\ <<emitted, g_packetsReceived, energyLines, started, nextTx>>'
               # <<emitted, g_packetsReceived, energyLines, started, nextTx>>
             => (phase = "Running" /\ phase' = "Running" /\ now < stopAt)
        /\ now' # now => (phase = "Running" /\ now < stopAt)
        /\ <<totalTxPackets, pdr>>' # <<totalTxPackets, pdr>>
             => /\ phase = "Halted" /\ phase' = "Reported"
                /\ pdr' = Pdr(g_packetsReceived, totalTxPackets')
        /\ sec.phase' # sec.phase => <<sec.phase, sec.phase'>> \in LifecycleOrder
        /\ (sec.phase = "Running" /\ sec.phase' = "Halted") => sec.now = sec.stopAt
        /\ SecCounters(sec)' # SecCounters(sec)
             => (sec.phase = "Running" /\ sec.phase' = "Running"
                 /\ sec.now < sec.stopAt)
        /\ <<sec.printedAuthorized, sec.printedUnauthorized>>'
               # <<sec.printedAuthorized, sec.printedUnauthorized>>
             => /\ sec.phase = "Halted" /\ sec.phase' = "Reported"
                /\ sec.printedAuthorized' = sec.g_numAuthorized
                /\ sec.printedUnauthorized' = sec.g_numUnauthorized
      ]_vars

\* C7 witness: a reported run of security.cc whose clients' next send
\* events were still queued at the stop time and never ran.
C7_Witness ==
    /\ program = "security" /\ sec.phase = "Reported"
    /\ sec.nextSend["client"] >= sec.stopAt
    /\ sec.sent["client"] = 1
    /\ sec.printedAuthorized >= 1

\* C8: one firing of the sink's Rx trace adds exactly 1 to the received
\* counter; one firing of the inspector adds exactly 1 to exactly one of
\* its two counters and leaves the other and the Allow-List alone; no
\* firing lowers a counter, schedules an event or moves virtual time.
C8_TraceFiringFrame ==
    [][ /\ g_packetsReceived' # g_packetsReceived =>
              /\ g_packetsReceived' = g_packetsReceived + 1
              /\ UNCHANGED <<now, stopAt, started, nextTx, sendIdx, emitted,
                             energyLines, phase>>
        /\ energyLines' # energyLines =>
              /\ energyLines' = energyLines + 1
              /\ UNCHANGED <<now, stopAt, started, nextTx, sendIdx, emitted,
                             g_packetsReceived, phase>>
        /\ <<sec.g_numAuthorized, sec.g_numUnauthorized>>'
               # <<sec.g_numAuthorized, sec.g_numUnauthorized>> =>
              /\ \/ /\ sec.g_numAuthorized' = sec.g_numAuthorized + 1
                    /\ sec.g_numUnauthorized' = sec.g_numUnauthorized
                 \/ /\ sec.g_numUnauthorized' = sec.g_numUnauthorized + 1
                    /\ sec.g_numAuthorized' = sec.g_numAuthorized
              /\ sec.g_acl' = sec.g_acl
              /\ sec.now' = sec.now /\ sec.stopAt' = sec.stopAt
              /\ sec.nextSend' = sec.nextSend /\ sec.sent' = sec.sent
              /\ sec.other' = sec.other /\ sec.phase' = sec.phase
        /\ sec.g_numAuthorized' >= sec.g_numAuthorized
        /\ sec.g_numUnauthorized' >= sec.g_numUnauthorized
        /\ g_packetsReceived' >= g_packetsReceived
      ]_vars

\* C8 witness: the inspector has fired for a listed and for an unlisted
\* source.
C8_Witness ==
    /\ program = "security"
    /\ sec.g_numAuthorized >= 1 /\ sec.g_numUnauthorized >= 1

C10_InspectorObservesOnly ==
    [][ \A n \in Senders :
            (sec.phyData[n]' # sec.phyData[n] /\ sec.serverRunning) =>
                /\ sec.serverRx[n]' = sec.serverRx[n] + 1
                /\ sec.echoed[n]' = sec.echoed[n] + 1
      ]_vars

\* C10 witness: a datagram of the rogue was counted Unauthorized, read by
\* the echo server and answered.
C10_Witness ==
    /\ program = "security"
    /\ rogueIp \in sec.unauthorizedFrom
    /\ sec.serverRx["rogue"] >= 1 /\ sec.echoed["rogue"] >= 1

====
